---- MODULE Spec2Model ----
(***************************************************************************)
(* Model of src/app.py: the reactive RC-impedance object SimRC.            *)
(*                                                                         *)
(* State: the one instance `simRC` (its four param.Integer parameters and  *)
(* its plain attributes Z, t, V_in, I_out, V_dft, I_dft, V_amp, I_amp,     *)
(* Z_calc), the last attribute assignment made by the caller (`call`) and  *)
(* how that assignment ended (`outcome`).                                  *)
(*                                                                         *)
(* One action per parameter assignment.  An assignment is synchronous: it  *)
(* validates the value, stores it and runs, in registration order, every   *)
(* watcher that depends on the parameter, so the action holds the whole    *)
(* cascade.                                                                *)
(*                                                                         *)
(* Numbers.  Integers are exact.  Real quantities are kept in exact        *)
(* symbolic form, a rational times a quotient of symbols (an impedance     *)
(* magnitude hypot(re, im), a spectral peak of a unit waveform), so that   *)
(* products and quotients are computed, not assumed; binary rounding of    *)
(* these reals is not modelled.  The one place where binary rounding        *)
(* decides a discrete result, int(duration * samp_rate), is modelled       *)
(* bit-exactly for IEEE-754 doubles (SampNum).  Non-finite results of      *)
(* numpy division by zero are the values NaN and Inf.                      *)
(*                                                                         *)
(* Watcher registration follows param 1.x, the library line the program    *)
(* was written for: a dependency that names a Parameter is that Parameter; *)
(* a dependency that names any other attribute ('V_in', 'I_out', which are *)
(* plain class attributes) is resolved as a method without dependency      *)
(* information of its own, that is, as a dependency on every Parameter of  *)
(* the class.  Assigning a plain attribute triggers nothing.               *)
(***************************************************************************)
EXTENDS Integers, Sequences, FiniteSets, TLC

VARIABLES simRC, call, outcome

vars == <<simRC, call, outcome>>

(***************************************************************************)
(* Bounds of the model: each parameter ranges over 1..ParamSmall, over the *)
(* special values below, and over its two nearest out-of-bounds values.    *)
(***************************************************************************)
ParamSmall == 2

(***************************************************************************)
(* Exact rationals n/d with d > 0, in lowest terms.                        *)
(***************************************************************************)
RECURSIVE Gcd(_, _)
Gcd(a, b) == IF b = 0 THEN a ELSE Gcd(b, a % b)

Abs(x) == IF x < 0 THEN -x ELSE x

Reduced(n, d, g) == [n |-> n \div g, d |-> d \div g]

Rat(n, d) == Reduced(IF d < 0 THEN -n ELSE n, Abs(d), Gcd(Abs(n), Abs(d)))

\* The product of x and y when x.n/y.d and y.n/x.d are in lowest terms.
Product(x, y) == [n |-> x.n * y.n, d |-> x.d * y.d]

RMul(a, b) == Product(Rat(a.n, b.d), Rat(b.n, a.d))

RInv(a) == Rat(a.d, a.n)

RDiv(a, b) == RMul(a, RInv(b))

RNeg(a) == [n |-> -a.n, d |-> a.d]

RAbs(a) == [n |-> Abs(a.n), d |-> a.d]

\* a < b; same-denominator operands are compared by numerator.
RLess(a, b) == IF a.d = b.d THEN a.n < b.n ELSE a.n * b.d < b.n * a.d

RECURSIVE Pow(_, _)
Pow(b, e) == IF e = 0 THEN 1 ELSE b * Pow(b, e - 1)

\* A decimal float literal <mantissa>e<exponent>, as the real it denotes.
Literal(mantissa, exponent) ==
    IF exponent >= 0 THEN Rat(mantissa * Pow(10, exponent), 1)
    ELSE Rat(mantissa, Pow(10, -exponent))

(***************************************************************************)
(* Scalars: cls "num" is the real q * prod(num) / prod(den), where num and *)
(* den are sequences of symbols denoting positive reals; "nan" and "inf"   *)
(* are the IEEE non-finite values.                                         *)
(***************************************************************************)
Scalar(q, num, den) == [cls |-> "num", q |-> q, num |-> num, den |-> den]

Num(k) == Scalar(Rat(k, 1), <<>>, <<>>)

NaN == [cls |-> "nan", q |-> Rat(0, 1), num |-> <<>>, den |-> <<>>]

Inf == [cls |-> "inf", q |-> Rat(0, 1), num |-> <<>>, den |-> <<>>]

IsZero(a) == a.cls = "num" /\ a.q.n = 0

IsFinite(a) == a.cls = "num"

RemoveAt(s, i) == SubSeq(s, 1, i - 1) \o SubSeq(s, i + 1, Len(s))

\* Cancels the symbols common to a numerator and a denominator.
RECURSIVE Cancel(_, _)
Kept(h, r) == [num |-> <<h>> \o r.num, den |-> r.den]

Cancel(num, den) ==
    IF num = <<>> THEN [num |-> <<>>, den |-> den]
    ELSE IF \A i \in 1..Len(den) : den[i] # Head(num)
    THEN Kept(Head(num), Cancel(Tail(num), den))
    ELSE Cancel(Tail(num),
                RemoveAt(den, CHOOSE i \in 1..Len(den) : den[i] = Head(num)))

Monomial(q, c) == Scalar(q, c.num, c.den)

SMul(a, b) ==
    IF a.cls # "num" \/ b.cls # "num"
    THEN (IF a.cls = "nan" \/ b.cls = "nan" \/ IsZero(a) \/ IsZero(b) THEN NaN ELSE Inf)
    ELSE IF a.q.n = 0 \/ b.q.n = 0 THEN Num(0)
    ELSE Monomial(RMul(a.q, b.q), Cancel(a.num \o b.num, a.den \o b.den))

\* Floating-point true division as numpy performs it: x/0 is nan for x = 0
\* and inf otherwise (a RuntimeWarning, never an exception).
SDiv(a, b) ==
    IF a.cls = "nan" \/ b.cls = "nan" THEN NaN
    ELSE IF a.cls = "inf" THEN (IF b.cls = "inf" THEN NaN ELSE Inf)
    ELSE IF b.cls = "inf" THEN Num(0)
    ELSE IF b.q.n = 0 THEN (IF a.q.n = 0 THEN NaN ELSE Inf)
    ELSE IF a.q.n = 0 THEN Num(0)
    ELSE Monomial(RDiv(a.q, b.q), Cancel(a.num \o b.den, a.den \o b.num))

SNeg(a) == IF a.cls = "num" THEN [a EXCEPT !.q = RNeg(a.q)] ELSE a

SAbs(a) == IF a.cls = "num" THEN [a EXCEPT !.q = RAbs(a.q)] ELSE a

\* abs(complex(re, im)) for an integer re and a rational im: the symbol
\* hypot(re, |im|), a positive real as soon as re or im is not zero.
AbsComplex(re, im) ==
    IF re = 0 /\ im.n = 0 THEN Num(0)
    ELSE Scalar(Rat(1, 1), <<[kind |-> "hypot", re |-> Abs(re), im |-> RAbs(im)]>>, <<>>)

(***************************************************************************)
(* Arrays: `len` elements, element i being coef * base[i], where base is a *)
(* unit waveform described by how it was produced.  A non-finite coef      *)
(* stands for an array holding nan/inf elements.                           *)
(***************************************************************************)
Array(len, coef, base) == [len |-> len, coef |-> coef, base |-> base]

\* np.array([0])
ArrayOfZero == Array(1, Num(0), [kind |-> "const"])

\* np.linspace(0, stop, num): num evenly spaced samples, both ends included.
\* `stop` is the rational value of the double cycle_num / freq.
Linspace(stop, num) ==
    Array(num, Num(1), [kind |-> "linspace", stop |-> stop, num |-> num])

\* Element i (0-based) of a linspace array: i * step with step =
\* stop / (num - 1), the last element being set to stop.  The numerator and
\* the denominator are left unreduced, so that elements share a denominator.
LinAt(a, i) ==
    IF a.len = 1 THEN [n |-> 0, d |-> 1]
    ELSE [n |-> i * a.base.stop.n, d |-> (a.len - 1) * a.base.stop.d]

\* np.sin(freq * (2 * np.pi * t))
Sin2Pi(freq, t) ==
    Array(t.len, Num(1), [kind |-> "sin", freq |-> freq, t |-> t.base])

ArrScale(s, a) == [a EXCEPT !.coef = SMul(s, a.coef)]

ArrNeg(a) == [a EXCEPT !.coef = SNeg(a.coef)]

\* array / scalar, element-wise.  Dividing by zero leaves nan where the
\* element is zero and inf elsewhere: a non-finite array.
ArrDiv(a, s) ==
    IF IsZero(s) THEN [a EXCEPT !.coef = NaN]
    ELSE [a EXCEPT !.coef = SDiv(a.coef, s)]

\* np.abs(np.fft.fft(a)): the magnitude spectrum, all len bins.  By
\* homogeneity |fft(c * x)| = |c| * |fft(x)|; any non-finite input element
\* makes every bin nan.
AbsFft(a) ==
    Array(a.len,
          IF IsFinite(a.coef) THEN SAbs(a.coef) ELSE NaN,
          [kind |-> "absfft", of |-> a.base, n |-> a.len, keep |-> a.len])

\* a[:k]
Prefix(a, k) ==
    LET m == IF k < a.len THEN k ELSE a.len
    IN  Array(m, a.coef, [a.base EXCEPT !.keep = m])

\* np.max of a non-empty spectrum (coef >= 0): coef times the peak of the
\* unit spectrum, which is positive for a sampled sine; nan propagates.
\* The empty case raises and is handled by the caller.
Max(a) ==
    IF ~IsFinite(a.coef) THEN NaN
    ELSE IF IsZero(a.coef) THEN Num(0)
    ELSE SMul(a.coef, Scalar(Rat(1, 1), <<[kind |-> "peak", of |-> a.base]>>, <<>>))

(***************************************************************************)
(* IEEE-754 double arithmetic of int(duration * samp_rate), bit-exact.     *)
(*                                                                         *)
(* duration = cycle_num / freq is the double m * 2^-e nearest to c/f, with *)
(* m a 53-bit integer (round to nearest, ties to even).  Its error is      *)
(* rho = c * 2^e - m * f, an integer with |rho| <= f/2, found by long      *)
(* division.  The exact product duration * samp_rate is then               *)
(* c*s/f - (s/f) * rho * 2^-e, e = 52 - k, (samp_rate s is an exact multiple of f), and *)
(* it rounds to a double below the integer c*s/f exactly when the error    *)
(* term exceeds half a unit in the last place of c*s/f; int() truncates.   *)
(***************************************************************************)
\* floor(log2(n)), n >= 1
RECURSIVE FloorLog2(_)
FloorLog2(n) == IF n < 2 THEN 0 ELSE 1 + FloorLog2(n \div 2)

\* the least j with c * 2^j >= f
RECURSIVE ShiftUp(_, _)
ShiftUp(c, f) == IF c >= f THEN 0 ELSE 1 + ShiftUp(2 * c, f)

\* floor(log2(c / f)): the binary exponent of the quotient
QuotExponent(c, f) == IF c >= f THEN FloorLog2(c \div f) ELSE -ShiftUp(c, f)

\* e further binary digits of c / f, sixteen at a time: the remainder and
\* the last digit
RECURSIVE LongDiv(_, _, _, _)
Digits(x, f, e) == LongDiv(x % f, (x \div f) % 2, f, e)

LongDiv(r, bit, f, e) ==
    IF e = 0 THEN [r |-> r, bit |-> bit]
    ELSE IF e >= 16 THEN Digits(r * 65536, f, e - 16)
    ELSE Digits(r * Pow(2, e), f, 0)

\* Round to nearest, ties to even: the signed remainder left by the rounded
\* quotient, given the remainder and last digit of the truncated one.
Nearest(s, f) ==
    IF 2 * s.r > f \/ (2 * s.r = f /\ s.bit = 1) THEN s.r - f ELSE s.r

\* int((cycle_num / freq) * samp_rate) for samp_rate a multiple of freq
\* The product of the double c / f (binary exponent k, error rho) and s,
\* truncated; `exact` is c * s / f.
Truncated(exact, s, f, rho, k) ==
    IF (s \div f) * rho > Pow(2, FloorLog2(exact) - 1 - k) THEN exact - 1 ELSE exact

\* rho of the double c / f, whose binary exponent is k
DivRoundingError(c, f, k) ==
    Nearest(LongDiv(c % f, (c \div f) % 2, f, 52 - k), f)

DivMul(c, f, s, k) == Truncated((c * s) \div f, s, f, DivRoundingError(c, f, k), k)

\* int((cycle_num / freq) * samp_rate) for samp_rate a multiple of freq
SampNum(cycle_num, freq, samp_rate) ==
    DivMul(cycle_num, freq, samp_rate, QuotExponent(cycle_num, freq))

(***************************************************************************)
(* The class SimRC.                                                        *)
(***************************************************************************)
\* amp = 3.3 / 2
amp == SDiv(Scalar(Literal(33, -1), <<>>, <<>>), Num(2))

\* The declared bounds of the four param.Integer parameters.
Bounds ==
    [freq |-> <<1, 10000>>, cycle_num |-> <<1, 10>>,
     R |-> <<1, 10000>>, nC |-> <<1, 1000>>]

\* A validation that checks the lower bound only.
InBoundsLowerOnly(name, v) == Bounds[name][1] <= v

\* param.Integer validation on assignment: the value lies within the bounds.
InBounds(name, v) == Bounds[name][1] <= v /\ v <= Bounds[name][2]

\* The instance after construction: parameter defaults and class attributes.
\* Construction runs no watcher (none is declared on_init).
SimRC ==
    [freq |-> 1, cycle_num |-> 1, R |-> 1, nC |-> 1,
     Z |-> Num(0),
     V_in |-> ArrayOfZero, t |-> ArrayOfZero, I_out |-> ArrayOfZero,
     V_dft |-> ArrayOfZero, I_dft |-> ArrayOfZero,
     V_amp |-> Num(0), I_amp |-> Num(0),
     Z_calc |-> Num(0)]

\* What a method call returns to the dispatcher: the object as the method
\* left it, the exception it raised (if any) and the warnings it issued.
Returned(o) == [obj |-> o, exc |-> "none", warn |-> {}]

Raised(o, e) == [obj |-> o, exc |-> e, warn |-> {}]

\* An impedance with the capacitance converted by 1e-9 and the 2*pi-free
\* reactance kept.
ImpedanceNano(R, nC, freq) ==
    AbsComplex(R, RNeg(RInv(RMul(Rat(freq, 1), RMul(Rat(nC, 1), Literal(1, -9))))))

\* The impedance magnitude of a series RC circuit as the program computes it.
Impedance(R, nC, freq) ==
    LET C == RMul(Rat(nC, 1), Literal(10, -9))
        X == RInv(RMul(Rat(freq, 1), C))
    IN  AbsComplex(R, RNeg(X))

set_Z(o) == Returned([o EXCEPT !.Z = Impedance(o.R, o.nC, o.freq)])

\* The two assignments of set_V_in, the time grid being known.
StoreWave(o, t) == Returned([o EXCEPT !.t = t, !.V_in = ArrScale(amp, Sin2Pi(o.freq, t))])

set_V_in(o) ==
    LET duration == Rat(o.cycle_num, o.freq)
        samp_rate == o.freq * 100
        samp_num == SampNum(o.cycle_num, o.freq, samp_rate)
    IN  StoreWave(o, Linspace(duration, samp_num))

\* A current derived from the resistance alone.
set_I_out_by_R(o) ==
    [obj |-> [o EXCEPT !.I_out = ArrDiv(ArrNeg(o.V_in), Num(o.R))],
     exc |-> "none", warn |-> {}]

set_I_out(o) ==
    [obj |-> [o EXCEPT !.I_out = ArrDiv(ArrNeg(o.V_in), o.Z)],
     exc |-> "none",
     warn |-> IF IsZero(o.Z) THEN {"RuntimeWarning: divide by zero"} ELSE {}]

\* 2 * np.abs(np.fft.fft(a)) / len(a), cut to its first len // 2 bins
SingleSided(a) ==
    LET dft == ArrScale(SDiv(Num(2), Num(a.len)), AbsFft(a))
    IN  Prefix(dft, dft.len \div 2)

EmptyMax == "ValueError: zero-size array to reduction operation maximum"

\* The tail of set_dfts once both spectra and both peaks are known.
StoreRatio(o, V_amp, I_amp) ==
    [obj |-> [o EXCEPT !.V_amp = V_amp, !.I_amp = I_amp, !.Z_calc = SDiv(V_amp, I_amp)],
     exc |-> "none",
     warn |-> IF IsZero(I_amp) THEN {"RuntimeWarning: divide by zero"} ELSE {}]

StoreCurrentPeak(o, V_amp, I_dft) ==
    IF I_dft.len = 0
    THEN Raised([o EXCEPT !.V_amp = V_amp, !.I_dft = I_dft], EmptyMax)
    ELSE StoreRatio([o EXCEPT !.I_dft = I_dft], V_amp, Max(I_dft))

StoreVoltagePeak(o, V_dft) ==
    IF V_dft.len = 0
    THEN Raised([o EXCEPT !.V_dft = V_dft], EmptyMax)
    ELSE StoreCurrentPeak([o EXCEPT !.V_dft = V_dft], Max(V_dft), SingleSided(o.I_out))

set_dfts(o) == StoreVoltagePeak(o, SingleSided(o.V_in))

(***************************************************************************)
(* The watchers and their dispatch.                                        *)
(***************************************************************************)
\* The watch=True methods, in the order the class body defines them.
Watchers == <<"set_Z", "set_V_in", "set_I_out", "set_dfts">>

\* A dependency list in which set_V_in also names R.
DependsOnWithR(m) ==
    CASE m = "set_Z" -> {"freq", "R", "nC"}
      [] m = "set_V_in" -> {"cycle_num", "freq", "R"}
      [] m = "set_I_out" -> {"V_in"}
      [] m = "set_dfts" -> {"V_in", "I_out"}

\* The names each @param.depends decorator lists.
DependsOn(m) ==
    CASE m = "set_Z" -> {"freq", "R", "nC"}
      [] m = "set_V_in" -> {"cycle_num", "freq"}
      [] m = "set_I_out" -> {"V_in"}
      [] m = "set_dfts" -> {"V_in", "I_out"}

\* The Parameters of the class (`name` is inherited and constant).
ClassParameters == {"name", "freq", "cycle_num", "R", "nC"}

\* The Parameters a watcher is registered on.
WatchedBy(m) ==
    UNION {IF d \in ClassParameters THEN {d} ELSE ClassParameters : d \in DependsOn(m)}

WatchersOf(name) == SelectSeq(Watchers, LAMBDA m : name \in WatchedBy(m))

Invoke(m, o) ==
    CASE m = "set_Z" -> set_Z(o)
      [] m = "set_V_in" -> set_V_in(o)
      [] m = "set_I_out" -> set_I_out(o)
      [] m = "set_dfts" -> set_dfts(o)

\* Runs the watchers one after the other; an exception ends the run and
\* leaves the object as the raising method left it.
RECURSIVE RunWatchers(_, _)
\* The run so far, extended by what method m returned.
After(acc, m, r) ==
    [obj |-> r.obj, exc |-> r.exc, warn |-> acc.warn \cup r.warn, ran |-> Append(acc.ran, m)]

RunWatchers(ms, acc) ==
    IF ms = <<>> \/ acc.exc # "none" THEN acc
    ELSE RunWatchers(Tail(ms), After(acc, Head(ms), Invoke(Head(ms), acc.obj)))

OutOfBounds == "ValueError: Parameter must be within bounds"

\* The assignment returns: the object is as the run left it.
Commit(r) ==
    /\ simRC' = r.obj
    /\ outcome' = [exc |-> r.exc, warn |-> r.warn, ran |-> r.ran]

\* simRC.<name> = v
SetParam(name, v) ==
    /\ call' = [name |-> name, value |-> v]
    /\ IF ~InBounds(name, v)
       THEN /\ simRC' = simRC
            /\ outcome' = [exc |-> OutOfBounds, warn |-> {}, ran |-> <<>>]
       ELSE Commit(RunWatchers(IF v = simRC[name] THEN <<>> ELSE WatchersOf(name),
                               [obj |-> [simRC EXCEPT ![name] = v], exc |-> "none",
                                warn |-> {}, ran |-> <<>>]))

\* The values the caller tries for a parameter: the small ones, the special
\* ones, and the two nearest values outside the bounds.
Tried(name, special) ==
    (1..ParamSmall) \cup special \cup {Bounds[name][1] - 1, Bounds[name][2] + 1}

Set_freq == \E v \in Tried("freq", {49, 1000, 10000}) : SetParam("freq", v)

Set_cycle_num == \E v \in Tried("cycle_num", {10}) : SetParam("cycle_num", v)

Set_R == \E v \in Tried("R", {100, 10000}) : SetParam("R", v)

Set_nC == \E v \in Tried("nC", {100, 1000}) : SetParam("nC", v)

Init ==
    /\ simRC = SimRC
    /\ call = [name |-> "__init__", value |-> 0]
    /\ outcome = [exc |-> "none", warn |-> {}, ran |-> <<>>]

Next == Set_freq \/ Set_cycle_num \/ Set_R \/ Set_nC

Spec == Init /\ [][Next]_vars

(***************************************************************************)
(* Vocabulary of the properties.                                           *)
(***************************************************************************)
ParamNames == {"freq", "cycle_num", "R", "nC"}

Ran(m) == \E i \in 1..Len(outcome.ran) : outcome.ran[i] = m

RanNext(m) == \E i \in 1..Len(outcome'.ran) : outcome'.ran[i] = m

\* The last assignment changed a parameter: some watcher ran.
Changed == outcome.ran # <<>>

\* The object every method has been run on, in pipeline order.
Recomputed(o) ==
    RunWatchers(Watchers, [obj |-> o, exc |-> "none", warn |-> {}, ran |-> <<>>]).obj

(***************************************************************************)
(* C1.  After a change of any one parameter, Z is the impedance of the     *)
(* current (R, nC, freq) and Z_calc is V_amp / I_amp of waveforms produced *)
(* for the current parameters.  Violated: from the initial state a change  *)
(* of cycle_num runs no set_Z, so Z stays the initial 0.                   *)
(***************************************************************************)
C1_RecomputedAfterChange ==
    Changed =>
        /\ simRC.Z = Impedance(simRC.R, simRC.nC, simRC.freq)
        /\ simRC.Z_calc = Recomputed(simRC).Z_calc

(***************************************************************************)
(* C2.  After a change, I_out has the length of V_in and is -V_in / Z for  *)
(* the impedance Z of the present (R, nC, freq).  Violated: after a first  *)
(* change of cycle_num the current is V_in divided by the initial Z = 0.   *)
(***************************************************************************)
C2_CurrentFromPresentImpedance ==
    Changed =>
        /\ simRC.I_out.len = simRC.V_in.len
        /\ simRC.I_out =
               ArrDiv(ArrNeg(simRC.V_in), Impedance(simRC.R, simRC.nC, simRC.freq))

(***************************************************************************)
(* C3.  No assignment made in the initial state, whose parameters are the  *)
(* boundary set freq = cycle_num = R = nC = 1, divides by zero or takes    *)
(* the maximum of an empty spectrum.  Violated by either first change.     *)
(***************************************************************************)
C3_BoundaryRunsClean ==
    [][simRC = SimRC => (outcome'.warn = {} /\ outcome'.exc # EmptyMax)]_vars

(***************************************************************************)
(* C4.  Z_calc or I_out is non-finite only in a state whose assignment     *)
(* reported an error.  Violated: a division by Z = 0 only warns.           *)
(***************************************************************************)
C4_NonFiniteIsReported ==
    (~IsFinite(simRC.Z_calc) \/ ~IsFinite(simRC.I_out.coef)) => outcome.exc # "none"

(***************************************************************************)
(* C5.  An assignment outside [1, 10000] (freq), [1, 10] (cycle_num),      *)
(* [1, 10000] (R) or [1, 1000] (nC) fails, runs no watcher and changes no  *)
(* field; every parameter stays within its bounds.                         *)
(***************************************************************************)
C5_Declared ==
    [freq |-> 1..10000, cycle_num |-> 1..10, R |-> 1..10000, nC |-> 1..1000]

C5_OutOfBoundsRejected ==
    [][/\ call'.value \notin C5_Declared[call'.name] =>
              /\ outcome'.exc = OutOfBounds
              /\ outcome'.ran = <<>>
              /\ simRC' = simRC
       /\ \A p \in ParamNames : simRC'[p] \in C5_Declared[p]]_vars

C5_Witness ==
    /\ call = [name |-> "freq", value |-> 10001]
    /\ outcome.exc = OutOfBounds
    /\ simRC.freq = 1000
    /\ simRC.V_in.len = 200

(***************************************************************************)
(* C6.  After set_V_in has run, t and V_in have equal length, the length   *)
(* is cycle_num * 100 (at least 2), t[0] = 0, the last element of t is     *)
(* cycle_num / freq and t is strictly increasing.  Violated: for freq = 49 *)
(* the double product (1/49) * 4900 is below 100 and int() gives 99.       *)
(***************************************************************************)
C6_SampleGrid ==
    Ran("set_V_in") =>
        /\ simRC.t.len = simRC.V_in.len
        /\ simRC.t.len >= 2
        /\ simRC.t.len = simRC.cycle_num * 100
        /\ LinAt(simRC.t, 0).n = 0
        /\ Rat(LinAt(simRC.t, simRC.t.len - 1).n, LinAt(simRC.t, simRC.t.len - 1).d)
               = Rat(simRC.cycle_num, simRC.freq)
        /\ \A i \in 0..(simRC.t.len - 2) : RLess(LinAt(simRC.t, i), LinAt(simRC.t, i + 1))

(***************************************************************************)
(* C7.  The result depends only on the parameter values: any two sequences *)
(* of parameter changes that end in the same parameters end with the same  *)
(* Z and Z_calc.  A sequence that ends with a change of freq runs all four *)
(* watchers and ends with Z and Z_calc as recomputed from the parameters   *)
(* alone, so every state reached by at least one change must hold those.   *)
(* Violated: the single change cycle_num := 2 ends with Z = 0 and Z_calc   *)
(* nan, while freq := 2, cycle_num := 2, freq := 1 ends in the same        *)
(* parameters with both computed.                                          *)
(***************************************************************************)
C7_ResultDependsOnParametersOnly ==
    simRC # SimRC =>
        /\ simRC.Z = Recomputed(simRC).Z
        /\ simRC.Z_calc = Recomputed(simRC).Z_calc

(***************************************************************************)
(* C8.  For freq = 1000, cycle_num = 2, R = 100, nC = 100 the empirical    *)
(* impedance Z_calc = V_amp / I_amp is within 3 percent of Z, V_amp and    *)
(* I_amp being the maxima of the first floor(N/2) = 100 bins of the        *)
(* 2/N-scaled magnitude spectra of V_in (N = 200) and I_out = -V_in / Z.   *)
(***************************************************************************)
C8_Ratio == SDiv(simRC.Z_calc, simRC.Z)

C8_EmpiricalAgrees ==
    (simRC.freq = 1000 /\ simRC.cycle_num = 2 /\ simRC.R = 100 /\ simRC.nC = 100) =>
        /\ simRC.V_in.len = 200
        /\ simRC.V_dft.len = 100 /\ simRC.I_dft.len = 100
        /\ simRC.V_amp = Max(simRC.V_dft) /\ simRC.I_amp = Max(simRC.I_dft)
        /\ simRC.V_dft.coef = SMul(SDiv(Num(2), Num(200)), SAbs(simRC.V_in.coef))
        /\ simRC.I_dft.coef = SMul(SDiv(Num(2), Num(200)), SAbs(simRC.I_out.coef))
        /\ simRC.Z_calc = SDiv(simRC.V_amp, simRC.I_amp)
        /\ simRC.Z.num = <<[kind |-> "hypot", re |-> 100, im |-> [n |-> 1000, d |-> 1]]>>
        /\ C8_Ratio.cls = "num" /\ C8_Ratio.num = <<>> /\ C8_Ratio.den = <<>>
        /\ 97 * C8_Ratio.q.d <= 100 * C8_Ratio.q.n
        /\ 100 * C8_Ratio.q.n <= 103 * C8_Ratio.q.d

C8_Witness ==
    /\ simRC.freq = 1000 /\ simRC.cycle_num = 2 /\ simRC.R = 100 /\ simRC.nC = 100
    /\ outcome.exc = "none"
    /\ Ran("set_dfts")

(***************************************************************************)
(* C9.  After every run of set_Z, Z = sqrt(R^2 + X^2) with                 *)
(* X = 10^8 / (freq * nC), and R >= 1, so Z >= R >= 1 > 0.                 *)
(***************************************************************************)
C9_Scale == (simRC.freq * simRC.nC) \div simRC.Z.num[1].im.d

C10_Frame ==
    [][/\ call'.name \in {"R", "nC"} =>
              (simRC'.t = simRC.t /\ simRC'.V_in = simRC.V_in /\ ~RanNext("set_V_in"))
       /\ call'.name = "cycle_num" => (simRC'.Z = simRC.Z /\ ~RanNext("set_Z"))
       /\ \A p \in ParamNames \ {call'.name} : simRC'[p] = simRC[p]]_vars

C10_Witness ==
    /\ call = [name |-> "R", value |-> 100]
    /\ simRC.R = 100
    /\ Ran("set_I_out")
    /\ simRC.V_in.len = 1000

====
